---- MODULE Spec2Model ----
(***************************************************************************)
(* Model of ocr_pipeline.py (run_pipeline and the functions it calls).     *)
(* Strings that the pipeline builds are sequences of tokens, so that the   *)
(* join, the error marker and the page texts can be told apart.            *)
(***************************************************************************)
EXTENDS Integers, Sequences, FiniteSets, TLC

VARIABLES pc, recipes, imageState, preprocFiles, tessFiles, gpt4oFiles,
          combinedFile, all_results, i, j, result, tesseract_texts, log,
          raw_text, escaped, card_recipe, image_data, card_html, html_recipes,
          ordered_recipes, cards_html, printed, img, denoised

vars == <<pc, recipes, imageState, preprocFiles, tessFiles, gpt4oFiles,
          combinedFile, all_results, i, j, result, tesseract_texts, log,
          raw_text, escaped, card_recipe, image_data, card_html, html_recipes,
          ordered_recipes, cards_html, printed, img, denoised>>

\* the state of run_pipeline (ocr_pipeline.py), apart from pc
pipelineVars == <<recipes, imageState, preprocFiles, tessFiles, gpt4oFiles,
                  combinedFile, all_results, i, j, result, tesseract_texts,
                  log>>

\* arguments and results of escape_html, build_recipe_card, build_html
\* (build_html.py) and preprocess_for_tesseract's image (ocr_pipeline.py)
escapeVars == <<raw_text, escaped>>
cardVars == <<card_recipe, image_data, card_html>>
htmlVars == <<html_recipes, ordered_recipes, cards_html, printed>>
imageVars == <<img, denoised>>

(* ------------------------------ bounds -------------------------------- *)
\* size of the audit: its recipes plus the image names they list
MaxAudit == 4

(* ------------------------------ inputs -------------------------------- *)
RecipeIds == {"a", "a_b"}
ImageNames == {"b_c", "c"}
RecipeTypes == {"mixed"}
Titles == {"Ball Curry"}
Notes == {""}
\* missing: not on disk; bad: cv2.imread gives None; nowrite: decodes, but
\* cv2.imwrite leaves no file (its result is not looked at); ok: decodes
\* and the preprocessed file is written
ImageStates == {"missing", "bad", "nowrite", "ok"}
Transcripts == {<<"transcript">>}
Exceptions == {<<>>}
SaveExceptions == {<<"disk full">>}

SeqsUpTo(S, n) == UNION {[1..k -> S] : k \in 0..n}

NoResult == [id |-> "", title |-> "", type |-> "", source_images |-> <<>>,
             tesseract_raw |-> <<>>, gpt4o_raw |-> <<>>, notes |-> ""]

(* ------------------------- pure helpers ------------------------------- *)
PAGE_BREAK == "\n\n--- PAGE BREAK ---\n\n"
ERROR_MARKER == "ERROR: "

\* faulty variant: the texts run together, no separator between them
RECURSIVE JoinNoSeparator(_, _)
JoinNoSeparator(sep, texts) ==
    IF texts = <<>> THEN <<>>
    ELSE texts[1] \o JoinNoSeparator(sep, Tail(texts))

\* str.join: the texts in order, the separator between consecutive ones
RECURSIVE Join(_, _)
Join(sep, texts) ==
    IF texts = <<>> THEN <<>>
    ELSE IF Len(texts) = 1 THEN texts[1]
    ELSE texts[1] \o <<sep>> \o Join(sep, Tail(texts))

\* img_path.exists() for IMAGES_DIR / img_name
ImageExists(name) == imageState[name] # "missing"

\* PREPROCESSED_DIR / f"{recipe_id}_{img_name}"
PreprocName(recipe_id, img_name) == recipe_id \o "_" \o img_name

\* files an earlier run may have left in PREPROCESSED_DIR
StaleNames == {PreprocName("a", "b_c")}

\* faulty variant: the filter on exists() is left out
ImagePathsUnfiltered(best_images) ==
    [k \in 1..Len(best_images) |-> [dir |-> "Images", name |-> best_images[k]]]

\* [IMAGES_DIR / name for name in best_images if (IMAGES_DIR / name).exists()]
ImagePaths(best_images) ==
    LET idx == SelectSeq([k \in 1..Len(best_images) |-> k],
                         LAMBDA k : ImageExists(best_images[k]))
    IN  [k \in 1..Len(idx) |-> [dir |-> "Images", name |-> best_images[idx[k]]]]

\* the dict literal built at the top of the loop body
NewResult(recipe) ==
    [id |-> recipe.id, title |-> recipe.title, type |-> recipe.type,
     source_images |-> recipe.best_images,
     tesseract_raw |-> <<>>, gpt4o_raw |-> <<>>, notes |-> recipe.notes]

\* f"ERROR: {e}"
ErrorText(e) == <<ERROR_MARKER>> \o e

\* preprocess_for_tesseract: the files of PREPROCESSED_DIR after the call
Preprocess(files, img_name, out_name) ==
    IF imageState[img_name] = "ok"
    THEN [p \in (DOMAIN files) \cup {out_name} |->
             IF p = out_name THEN img_name ELSE files[p]]
    ELSE files

\* run_tesseract: the text of the image file it is given, stripped
\* (deterministic in the file's bytes)
TesseractTexts(content) == {<<content>>}

\* faulty variant: every recipe writes to one file name
TxtNameShared(recipe_id) == "output.txt"

\* f"{recipe_id}.txt"
TxtName(recipe_id) == recipe_id \o ".txt"

\* open(file, "w"); f.write(text)
WriteFile(files, name, text) ==
    [p \in (DOMAIN files) \cup {name} |-> IF p = name THEN text ELSE files[p]]

Event(op, arg) == [op |-> op, i |-> i, arg |-> arg]

(* ------------------------------- Init --------------------------------- *)
\* the functions of build_html.py and the image of preprocess_for_tesseract
\* before they are called
EscapeIdle == raw_text = "" /\ escaped = ""

CardIdle == card_recipe = <<>> /\ image_data = {} /\ card_html = <<>>

HtmlIdle ==
    /\ html_recipes = <<>>
    /\ ordered_recipes = <<>>
    /\ cards_html = <<>>
    /\ printed = <<>>

ImageIdle == img = <<>> /\ denoised = <<>>

\* audit entries that list at most n images
RecipeSet(n) == [id : RecipeIds, title : Titles, type : RecipeTypes,
                 best_images : SeqsUpTo(ImageNames, n), notes : Notes]

\* audit["recipes"]: the lists of entries of at most the given size
RECURSIVE Audits(_)
Audits(size) ==
    {<<>>} \cup
    (IF size = 0 THEN {}
     ELSE UNION {{<<r>> \o rest :
                     rest \in Audits(size - 1 - Len(r.best_images))} :
                 r \in RecipeSet(size - 1)})

\* the files the run reads are those the audit names: the rest of the disk
\* is left out of the state
Listed(rs, n) ==
    \E k \in 1..Len(rs) : \E m \in 1..Len(rs[k].best_images) :
        rs[k].best_images[m] = n

UsedPreprocNames(rs) ==
    UNION {{PreprocName(rs[k].id, rs[k].best_images[m]) :
               m \in 1..Len(rs[k].best_images)} : k \in 1..Len(rs)}

Init ==
    /\ pc = "start"
    /\ recipes \in Audits(MaxAudit)
    /\ imageState \in [ImageNames -> ImageStates]
    /\ \A n \in ImageNames : Listed(recipes, n) \/ imageState[n] = "missing"
    /\ \E S \in SUBSET (StaleNames \cap UsedPreprocNames(recipes)) :
          preprocFiles = [p \in S |-> "stale"]
    /\ tessFiles = <<>>
    /\ gpt4oFiles = <<>>
    /\ combinedFile = <<"absent">>
    /\ all_results = <<>>
    /\ i = 1
    /\ j = 1
    /\ result = NoResult
    /\ tesseract_texts = <<>>
    /\ log = <<>>
    /\ EscapeIdle /\ CardIdle /\ HtmlIdle /\ ImageIdle

(* ------------------------------ actions ------------------------------- *)
\* load_audit() returns; all_results = []
LoadAudit ==
    /\ UNCHANGED <<escapeVars, cardVars, htmlVars, imageVars>>
    /\ pc = "start"
    /\ pc' = "recipe"
    /\ log' = Append(log, Event("load", "ok"))
    /\ UNCHANGED <<recipes, imageState, preprocFiles, tessFiles, gpt4oFiles,
                   combinedFile, all_results, i, j, result, tesseract_texts>>

\* faulty variant: the failure is swallowed and the loop is entered
LoadAuditFailGoesOn ==
    /\ UNCHANGED <<escapeVars, cardVars, htmlVars, imageVars>>
    /\ pc = "start"
    /\ pc' = "recipe"
    /\ log' = Append(log, Event("load", "failed"))
    /\ UNCHANGED <<recipes, imageState, preprocFiles, tessFiles, gpt4oFiles,
                   combinedFile, all_results, i, j, result, tesseract_texts>>

\* load_audit() raises: nothing catches it
LoadAuditFail ==
    /\ UNCHANGED <<escapeVars, cardVars, htmlVars, imageVars>>
    /\ pc = "start"
    /\ pc' = "aborted"
    /\ log' = Append(log, Event("load", "failed"))
    /\ UNCHANGED <<recipes, imageState, preprocFiles, tessFiles, gpt4oFiles,
                   combinedFile, all_results, i, j, result, tesseract_texts>>

\* for i, recipe in enumerate(recipes): the loop head and the result literal
StartRecipe ==
    /\ UNCHANGED <<escapeVars, cardVars, htmlVars, imageVars>>
    /\ pc = "recipe"
    /\ i <= Len(recipes)
    /\ result' = NewResult(recipes[i])
    /\ tesseract_texts' = <<>>
    /\ j' = 1
    /\ pc' = "image"
    /\ log' = Append(log, Event("start", recipes[i].id))
    /\ UNCHANGED <<recipes, imageState, preprocFiles, tessFiles, gpt4oFiles,
                   combinedFile, all_results, i>>

\* for img_name in best_images: the image is not on disk
ImageMissing ==
    /\ UNCHANGED <<escapeVars, cardVars, htmlVars, imageVars>>
    /\ pc = "image"
    /\ j <= Len(recipes[i].best_images)
    /\ ~ImageExists(recipes[i].best_images[j])
    /\ log' = Append(log, Event("warn_not_found", recipes[i].best_images[j]))
    /\ j' = j + 1
    /\ UNCHANGED <<pc, recipes, imageState, preprocFiles, tessFiles,
                   gpt4oFiles, combinedFile, all_results, i, result,
                   tesseract_texts>>

\* the image is on disk, preprocess_for_tesseract is called, and no file is
\* at preproc_path afterwards
ImageNoPreproc ==
    /\ UNCHANGED <<escapeVars, cardVars, htmlVars, imageVars>>
    /\ pc = "image"
    /\ j <= Len(recipes[i].best_images)
    /\ LET img_name == recipes[i].best_images[j]
           out == PreprocName(recipes[i].id, img_name)
           files == Preprocess(preprocFiles, img_name, out)
       IN  /\ ImageExists(img_name)
           /\ out \notin DOMAIN files
           /\ preprocFiles' = files
           /\ log' = log \o <<Event("preprocess", <<img_name, out>>)>>
                         \o (IF imageState[img_name] # "bad" THEN <<>>
                             ELSE <<Event("warn_could_not_load", img_name)>>)
                         \o <<Event("preproc_exists", <<j, out, FALSE>>)>>
    /\ j' = j + 1
    /\ UNCHANGED <<pc, recipes, imageState, tessFiles, gpt4oFiles,
                   combinedFile, all_results, i, result, tesseract_texts>>

\* the image is on disk, a file is at preproc_path after preprocessing,
\* run_tesseract returns its text
ImageTesseract ==
    /\ UNCHANGED <<escapeVars, cardVars, htmlVars, imageVars>>
    /\ pc = "image"
    /\ j <= Len(recipes[i].best_images)
    /\ LET img_name == recipes[i].best_images[j]
           out == PreprocName(recipes[i].id, img_name)
           files == Preprocess(preprocFiles, img_name, out)
       IN  /\ ImageExists(img_name)
           /\ out \in DOMAIN files
           /\ preprocFiles' = files
           /\ \E tess_text \in TesseractTexts(files[out]) :
                 /\ tesseract_texts' = Append(tesseract_texts, tess_text)
                 /\ log' = log \o <<Event("preprocess", <<img_name, out>>)>>
                               \o (IF imageState[img_name] # "bad" THEN <<>>
                                   ELSE <<Event("warn_could_not_load", img_name)>>)
                               \o <<Event("preproc_exists", <<j, out, TRUE>>),
                                     Event("tesseract", <<j, out, tess_text>>)>>
    /\ j' = j + 1
    /\ UNCHANGED <<pc, recipes, imageState, tessFiles, gpt4oFiles,
                   combinedFile, all_results, i, result>>

\* as ImageTesseract, but run_tesseract raises: nothing catches it
ImageTesseractRaises ==
    /\ UNCHANGED <<escapeVars, cardVars, htmlVars, imageVars>>
    /\ pc = "image"
    /\ j <= Len(recipes[i].best_images)
    /\ LET img_name == recipes[i].best_images[j]
           out == PreprocName(recipes[i].id, img_name)
           files == Preprocess(preprocFiles, img_name, out)
       IN  /\ ImageExists(img_name)
           /\ out \in DOMAIN files
           /\ preprocFiles' = files
           /\ log' = log \o <<Event("preprocess", <<img_name, out>>)>>
                         \o (IF imageState[img_name] # "bad" THEN <<>>
                             ELSE <<Event("warn_could_not_load", img_name)>>)
                         \o <<Event("preproc_exists", <<j, out, TRUE>>),
                               Event("tesseract_raised", <<j, out>>)>>
    /\ pc' = "crashed"
    /\ UNCHANGED <<recipes, imageState, tessFiles, gpt4oFiles, combinedFile,
                   all_results, i, j, result, tesseract_texts>>

\* after the image loop: the join and the per-recipe Tesseract file
SaveTesseract ==
    /\ UNCHANGED <<escapeVars, cardVars, htmlVars, imageVars>>
    /\ pc = "image"
    /\ j > Len(recipes[i].best_images)
    /\ LET raw == Join(PAGE_BREAK, tesseract_texts)
       IN  /\ result' = [result EXCEPT !.tesseract_raw = raw]
           /\ tessFiles' = WriteFile(tessFiles, TxtName(result.id), raw)
           /\ log' = Append(log, Event("write_tesseract",
                                       <<TxtName(result.id), raw>>))
    /\ pc' = "vision"
    /\ UNCHANGED <<recipes, imageState, preprocFiles, gpt4oFiles,
                   combinedFile, all_results, i, j, tesseract_texts>>

\* faulty variant: the vision call is made with no images and its failure recorded
VisionSkippedCallsAnyway ==
    /\ UNCHANGED <<escapeVars, cardVars, htmlVars, imageVars>>
    /\ pc = "vision"
    /\ ImagePaths(recipes[i].best_images) = <<>>
    /\ result' = [result EXCEPT !.gpt4o_raw = ErrorText(<<"no images">>)]
    /\ log' = log \o <<Event("vision_call", <<<<>>, recipes[i].type>>),
                       Event("vision_raised", <<"no images">>),
                       Event("error_gpt4o_failed", <<"no images">>)>>
    /\ pc' = "append"
    /\ UNCHANGED <<recipes, imageState, preprocFiles, tessFiles, gpt4oFiles,
                   combinedFile, all_results, i, j, tesseract_texts>>

\* image_paths is empty: the vision block is skipped
VisionSkipped ==
    /\ UNCHANGED <<escapeVars, cardVars, htmlVars, imageVars>>
    /\ pc = "vision"
    /\ ImagePaths(recipes[i].best_images) = <<>>
    /\ pc' = "append"
    /\ UNCHANGED <<recipes, imageState, preprocFiles, tessFiles, gpt4oFiles,
                   combinedFile, all_results, i, j, result, tesseract_texts,
                   log>>

\* faulty variant: the transcript is kept in the record but never saved to its file
VisionOkNoSave ==
    /\ UNCHANGED <<escapeVars, cardVars, htmlVars, imageVars>>
    /\ pc = "vision"
    /\ ImagePaths(recipes[i].best_images) # <<>>
    /\ \E gpt4o_text \in Transcripts :
          /\ result' = [result EXCEPT !.gpt4o_raw = gpt4o_text]
          /\ log' = log \o <<Event("vision_call",
                                   <<ImagePaths(recipes[i].best_images),
                                     recipes[i].type>>),
                             Event("vision_returned", gpt4o_text),
                             Event("sleep", 1)>>
    /\ pc' = "append"
    /\ UNCHANGED <<recipes, imageState, preprocFiles, tessFiles, gpt4oFiles,
                   combinedFile, all_results, i, j, tesseract_texts>>

\* run_gpt4o_vision returns, the transcript is saved, then time.sleep(1)
VisionOk ==
    /\ UNCHANGED <<escapeVars, cardVars, htmlVars, imageVars>>
    /\ pc = "vision"
    /\ ImagePaths(recipes[i].best_images) # <<>>
    /\ \E gpt4o_text \in Transcripts :
          /\ result' = [result EXCEPT !.gpt4o_raw = gpt4o_text]
          /\ gpt4oFiles' = WriteFile(gpt4oFiles, TxtName(result.id), gpt4o_text)
          /\ log' = log \o <<Event("vision_call",
                                   <<ImagePaths(recipes[i].best_images),
                                     recipes[i].type>>),
                             Event("vision_returned", gpt4o_text),
                             Event("write_gpt4o",
                                   <<TxtName(result.id), gpt4o_text>>),
                             Event("sleep", 1)>>
    /\ pc' = "append"
    /\ UNCHANGED <<recipes, imageState, preprocFiles, tessFiles, combinedFile,
                   all_results, i, j, tesseract_texts>>

\* faulty variant: a failed vision call is tried a second time
VisionRaisesRetry ==
    /\ UNCHANGED <<escapeVars, cardVars, htmlVars, imageVars>>
    /\ pc = "vision"
    /\ ImagePaths(recipes[i].best_images) # <<>>
    /\ \E e \in Exceptions :
          /\ result' = [result EXCEPT !.gpt4o_raw = ErrorText(e)]
          /\ log' = log \o <<Event("vision_call",
                                   <<ImagePaths(recipes[i].best_images),
                                     recipes[i].type>>),
                             Event("vision_raised", e),
                             Event("vision_call",
                                   <<ImagePaths(recipes[i].best_images),
                                     recipes[i].type>>),
                             Event("vision_raised", e),
                             Event("error_gpt4o_failed", e)>>
    /\ pc' = "append"
    /\ UNCHANGED <<recipes, imageState, preprocFiles, tessFiles, gpt4oFiles,
                   combinedFile, all_results, i, j, tesseract_texts>>

\* run_gpt4o_vision raises: except Exception as e
VisionRaises ==
    /\ UNCHANGED <<escapeVars, cardVars, htmlVars, imageVars>>
    /\ pc = "vision"
    /\ ImagePaths(recipes[i].best_images) # <<>>
    /\ \E e \in Exceptions :
          /\ result' = [result EXCEPT !.gpt4o_raw = ErrorText(e)]
          /\ log' = log \o <<Event("vision_call",
                                   <<ImagePaths(recipes[i].best_images),
                                     recipes[i].type>>),
                             Event("vision_raised", e),
                             Event("error_gpt4o_failed", e)>>
    /\ pc' = "append"
    /\ UNCHANGED <<recipes, imageState, preprocFiles, tessFiles, gpt4oFiles,
                   combinedFile, all_results, i, j, tesseract_texts>>

\* run_gpt4o_vision returns, but writing the transcript file raises inside
\* the try block: the same except clause runs
VisionSaveRaises ==
    /\ UNCHANGED <<escapeVars, cardVars, htmlVars, imageVars>>
    /\ pc = "vision"
    /\ ImagePaths(recipes[i].best_images) # <<>>
    /\ \E gpt4o_text \in Transcripts, e \in SaveExceptions :
          /\ result' = [result EXCEPT !.gpt4o_raw = ErrorText(e)]
          /\ log' = log \o <<Event("vision_call",
                                   <<ImagePaths(recipes[i].best_images),
                                     recipes[i].type>>),
                             Event("vision_returned", gpt4o_text),
                             Event("write_gpt4o_raised", e),
                             Event("error_gpt4o_failed", e)>>
    /\ pc' = "append"
    /\ UNCHANGED <<recipes, imageState, preprocFiles, tessFiles, gpt4oFiles,
                   combinedFile, all_results, i, j, tesseract_texts>>

\* faulty variant: a failed vision call drops the record (continue in the handler)
AppendResultDropFailed ==
    /\ UNCHANGED <<escapeVars, cardVars, htmlVars, imageVars>>
    /\ pc = "append"
    /\ all_results' = IF result.gpt4o_raw # <<>> /\ result.gpt4o_raw[1] = ERROR_MARKER
                      THEN all_results ELSE Append(all_results, result)
    /\ log' = Append(log, Event("append", result.id))
    /\ i' = i + 1
    /\ pc' = "recipe"
    /\ UNCHANGED <<recipes, imageState, preprocFiles, tessFiles, gpt4oFiles,
                   combinedFile, j, result, tesseract_texts>>

\* all_results.append(result); next recipe
AppendResult ==
    /\ UNCHANGED <<escapeVars, cardVars, htmlVars, imageVars>>
    /\ pc = "append"
    /\ all_results' = Append(all_results, result)
    /\ log' = Append(log, Event("append", result.id))
    /\ i' = i + 1
    /\ pc' = "recipe"
    /\ UNCHANGED <<recipes, imageState, preprocFiles, tessFiles, gpt4oFiles,
                   combinedFile, j, result, tesseract_texts>>

\* after the loop: json.dump(all_results) to ocr_results_combined.json
SaveCombined ==
    /\ UNCHANGED <<escapeVars, cardVars, htmlVars, imageVars>>
    /\ pc = "recipe"
    /\ i > Len(recipes)
    /\ combinedFile' = <<"written", all_results>>
    /\ log' = Append(log, Event("write_combined", Len(all_results)))
    /\ pc' = "done"
    /\ UNCHANGED <<recipes, imageState, preprocFiles, tessFiles, gpt4oFiles,
                   all_results, i, j, result, tesseract_texts>>

Next ==
    \/ LoadAudit
    \/ LoadAuditFail
    \/ StartRecipe
    \/ ImageMissing
    \/ ImageNoPreproc
    \/ ImageTesseract
    \/ ImageTesseractRaises
    \/ SaveTesseract
    \/ VisionSkipped
    \/ VisionOk
    \/ VisionRaises
    \/ VisionSaveRaises
    \/ AppendResult
    \/ SaveCombined

Spec == Init /\ [][Next]_vars

(* --------------------------- log helpers ------------------------------ *)
\* positions of the events of kind op logged while recipe k was processed
Pos(k, op) == {n \in 1..Len(log) : log[n].i = k /\ log[n].op = op}

Happened(k, op) == \E n \in 1..Len(log) : log[n].i = k /\ log[n].op = op

UniqueIds ==
    \A a, b \in 1..Len(recipes) : recipes[a].id = recipes[b].id => a = b

Terminated == pc \in {"done", "aborted", "crashed"}

(* ------------------------------ claims -------------------------------- *)
\* C1: whenever the combined file has been written it holds exactly one
\* record per audit recipe, record k carrying the id of audit entry k.
C1_CombinedOnePerRecipeInOrder ==
    combinedFile[1] = "written" =>
        /\ Len(combinedFile[2]) = Len(recipes)
        /\ \A k \in 1..Len(recipes) : combinedFile[2][k].id = recipes[k].id

\* C1 witness: a two-recipe audit with distinct ids, one of whose vision
\* calls raised, has its combined file written.
C1_Witness ==
    /\ combinedFile[1] = "written"
    /\ Len(recipes) = 2
    /\ UniqueIds
    /\ Happened(1, "vision_raised")

\* C2: once the vision call of recipe k has raised, the record of recipe k
\* carries a non-empty vision field starting with the error marker, and the
\* run does not end before every recipe of the audit has its record.
C2_VisionErrorMarkedAndBatchContinues ==
    \A k \in 1..Len(recipes) :
        Happened(k, "vision_raised") =>
            /\ k <= Len(all_results) =>
                  /\ all_results[k].gpt4o_raw # <<>>
                  /\ all_results[k].gpt4o_raw[1] = ERROR_MARKER
            /\ Terminated => Len(all_results) = Len(recipes)

\* C3: once the audit has loaded, the run ends only by writing the combined
\* file with a record for every recipe.
C3_LoadedRunCompletes ==
    (Terminated /\ pc # "aborted") =>
        /\ pc = "done"
        /\ combinedFile[1] = "written"
        /\ Len(combinedFile[2]) = Len(recipes)

\* C4: when the recognizer raises on an image of recipe k, the batch goes
\* on: the run is not ended by it, and when the run has ended recipe k and
\* every later recipe have records.
C4_RecognizerErrorIsPerImage ==
    \A k \in 1..Len(recipes) :
        Happened(k, "tesseract_raised") =>
            /\ pc # "crashed"
            /\ Terminated => Len(all_results) = Len(recipes)

(* ---- operators the claims use to read a printed-text field ---------- *)
\* the page texts of a field: cut at every separator token
RECURSIVE Pieces(_)
Pieces(raw) ==
    IF \A n \in 1..Len(raw) : raw[n] # "\n\n--- PAGE BREAK ---\n\n" THEN <<raw>>
    ELSE LET n == CHOOSE m \in 1..Len(raw) :
                     /\ raw[m] = "\n\n--- PAGE BREAK ---\n\n"
                     /\ \A q \in 1..(m - 1) : raw[q] # "\n\n--- PAGE BREAK ---\n\n"
         IN  <<SubSeq(raw, 1, n - 1)>> \o Pieces(SubSeq(raw, n + 1, Len(raw)))

\* the positions of a list that satisfy Test, in list order
Filtered(len, Test(_)) == SelectSeq([n \in 1..len |-> n], Test)

\* the events of kind op logged for recipe k, in order
Events(k, op) == SelectSeq(log, LAMBDA e : e.i = k /\ e.op = op)

\* the field consists of the page texts of the images at positions js
IsPagesOf(raw, k, js) ==
    LET tess == Events(k, "tesseract")
    IN  /\ Len(tess) = Len(js)
        /\ \A n \in 1..Len(js) : tess[n].arg[1] = js[n]
        /\ IF js = <<>> THEN raw = <<>>
           ELSE Pieces(raw) = [n \in 1..Len(js) |-> tess[n].arg[3]]

\* one 'Image not found' warning per missing image, in list order
WarnedMissing(k) ==
    LET best == recipes[k].best_images
        miss == Filtered(Len(best), LAMBDA n : imageState[best[n]] = "missing")
        warn == Events(k, "warn_not_found")
    IN  /\ Len(warn) = Len(miss)
        /\ \A n \in 1..Len(miss) : warn[n].arg = best[miss[n]]

\* preproc_path.exists() answered TRUE for image j of recipe k
PreprocPresent(k, jj) ==
    \E n \in 1..Len(log) :
        /\ log[n].i = k /\ log[n].op = "preproc_exists"
        /\ log[n].arg[1] = jj /\ log[n].arg[3]

\* C5 as stated: the printed-text field of a record has one page segment
\* per listed image that is on disk, in list order, joined by the
\* separator, and one warning per missing image.
C5_SegmentPerExistingImage ==
    \A k \in 1..Len(all_results) :
        LET best == recipes[k].best_images
        IN  /\ IsPagesOf(all_results[k].tesseract_raw, k,
                         Filtered(Len(best), LAMBDA n : imageState[best[n]] # "missing"))
            /\ WarnedMissing(k)

\* C5 amended: the printed-text field of a record has one page segment
\* per listed image that is on disk and has a file at its preprocessed
\* path after preprocessing (every image that decodes has one), in list
\* order, joined by the separator; one warning per missing image.
C5_SegmentPerPreprocessedImage ==
    \A k \in 1..Len(all_results) :
        LET best == recipes[k].best_images
        IN  /\ IsPagesOf(all_results[k].tesseract_raw, k,
                         Filtered(Len(best), LAMBDA n :
                             /\ imageState[best[n]] # "missing"
                             /\ PreprocPresent(k, n)))
            /\ \A n \in 1..Len(best) :
                   imageState[best[n]] = "ok" => PreprocPresent(k, n)
            /\ WarnedMissing(k)

\* C5 witness: a record whose recipe lists two images on disk that both
\* have preprocessed files, and the field holds two segments.
C5_Witness ==
    \E k \in 1..Len(all_results) :
        /\ Len(recipes[k].best_images) = 2
        /\ PreprocPresent(k, 1) /\ PreprocPresent(k, 2)
        /\ Len(Pieces(all_results[k].tesseract_raw)) = 2

\* C6: every name in a record's source image list is on disk.
C6_SourceImagesOnDisk ==
    \A k \in 1..Len(all_results) :
        \A n \in 1..Len(all_results[k].source_images) :
            imageState[all_results[k].source_images[n]] # "missing"

\* C7: every vision call of recipe k receives exactly the listed images
\* that are on disk, in list order, as files of the Images directory; a
\* recipe with such an image that got its record had a vision call.
C7_VisionGetsExistingOriginals ==
    \A k \in 1..Len(recipes) :
        LET best == recipes[k].best_images
            on == Filtered(Len(best), LAMBDA n : imageState[best[n]] # "missing")
            want == [n \in 1..Len(on) |-> [dir |-> "Images", name |-> best[on[n]]]]
        IN  /\ \A n \in Pos(k, "vision_call") : log[n].arg[1] = want
            /\ (k <= Len(all_results) /\ want # <<>>) => Happened(k, "vision_call")

\* C7 witness: two images listed, one on disk, the call got one image.
C7_Witness ==
    \E k \in 1..Len(recipes) :
        /\ Len(recipes[k].best_images) = 2
        /\ imageState[recipes[k].best_images[1]] # "missing"
        /\ imageState[recipes[k].best_images[2]] = "missing"
        /\ \E n \in Pos(k, "vision_call") : Len(log[n].arg[1]) = 1

\* C8: at most one vision call is made for each recipe of the audit.
C8_VisionAtMostOncePerRecipe ==
    \A k \in 1..Len(recipes) : Cardinality(Pos(k, "vision_call")) <= 1

\* C8 witness: a recipe with two images on disk whose vision call raised
\* has its record, after a single call.
C8_Witness ==
    \E k \in 1..Len(all_results) :
        /\ Len(recipes[k].best_images) = 2
        /\ \A n \in 1..2 : imageState[recipes[k].best_images[n]] # "missing"
        /\ Happened(k, "vision_raised")
        /\ Cardinality(Pos(k, "vision_call")) = 1

\* C9: a recipe with an empty best_images list causes no preprocessing,
\* recognizer or vision call, and its record is appended with both text
\* fields empty.
C9_EmptyImageList ==
    \A k \in 1..Len(recipes) :
        recipes[k].best_images = <<>> =>
            /\ ~Happened(k, "preprocess")
            /\ ~Happened(k, "tesseract")
            /\ ~Happened(k, "tesseract_raised")
            /\ ~Happened(k, "vision_call")
            /\ (k < i \/ pc = "done") =>
                  /\ k <= Len(all_results)
                  /\ all_results[k].id = recipes[k].id
                  /\ all_results[k].tesseract_raw = <<>>
                  /\ all_results[k].gpt4o_raw = <<>>

\* C9 witness: the second recipe has no images and its record is there.
C9_Witness ==
    /\ Len(all_results) = 2
    /\ recipes[2].best_images = <<>>
    /\ recipes[1].best_images # <<>>

\* an event of kind op for recipe k precedes the append of record k and
\* carries the file name and the text given
WrittenBeforeAppend(k, op, text) ==
    \E w \in 1..Len(log) :
        /\ log[w].i = k /\ log[w].op = op
        /\ log[w].arg = <<TxtName(recipes[k].id), text>>
        /\ \E a \in (w + 1)..Len(log) : log[a].i = k /\ log[a].op = "append"

\* C10 as stated: every appended record had both per-recipe files written,
\* with its two text fields, before the append.
C10_BothFilesBeforeAppend ==
    \A k \in 1..Len(all_results) :
        /\ WrittenBeforeAppend(k, "write_tesseract", all_results[k].tesseract_raw)
        /\ WrittenBeforeAppend(k, "write_gpt4o", all_results[k].gpt4o_raw)

\* C10 amended: every appended record had its printed-text file written,
\* with the printed-text field, before the append; its vision file was
\* written before the append, with the vision field, exactly when the
\* vision call returned a transcript and saving it did not raise; no vision
\* file is written when the call raised or was skipped.
C10_FilesBeforeAppendOnSuccess ==
    \A k \in 1..Len(all_results) :
        /\ WrittenBeforeAppend(k, "write_tesseract", all_results[k].tesseract_raw)
        /\ IF Happened(k, "vision_returned") /\ ~Happened(k, "write_gpt4o_raised")
           THEN WrittenBeforeAppend(k, "write_gpt4o", all_results[k].gpt4o_raw)
           ELSE ~Happened(k, "write_gpt4o")

\* C10 witness: one record whose vision call succeeded and one whose
\* vision call raised.
C10_Witness ==
    /\ Len(all_results) = 2
    /\ Happened(1, "write_gpt4o")
    /\ Happened(2, "vision_raised")

\* C11 as stated: a vision call that returned a transcript is followed by
\* the delay before the record is appended, and the delay is applied only
\* after a call that returned.
C11_DelayIffVisionReturned ==
    \A k \in 1..Len(all_results) :
        Happened(k, "vision_returned") <=> Happened(k, "sleep")

\* C12: when loading the audit fails the run is over at once: no call is
\* made, no record is built, and no per-recipe file and no combined file
\* is written.
C12_LoadFailureAbortsBeforeWork ==
    (log # <<>> /\ log[1].op = "load" /\ log[1].arg = "failed") =>
        /\ pc = "aborted"
        /\ Len(log) = 1
        /\ all_results = <<>>
        /\ tessFiles = <<>>
        /\ gpt4oFiles = <<>>
        /\ combinedFile = <<"absent">>
        /\ \A p \in DOMAIN preprocFiles : preprocFiles[p] = "stale"

\* C12 witness: the load of an audit with a recipe that lists an image on
\* disk has failed.
C12_Witness ==
    /\ pc = "aborted"
    /\ Len(recipes) >= 1
    /\ \E n \in 1..Len(recipes[1].best_images) :
          imageState[recipes[1].best_images[n]] = "ok"

\* the loop body for image n of recipe k has run to its end
ImageHandled(k, n) ==
    \/ k < i
    \/ k = i /\ pc \in {"vision", "append"}
    \/ k = i /\ pc = "image" /\ n < j

\* C13 as stated: every listed image that was handled and gave no page
\* segment has a warning naming it, and every vision call that raised has
\* its error line.
C13_NoSilentDrop ==
    \A k \in 1..Len(recipes) :
        /\ \A n \in 1..Len(recipes[k].best_images) :
              (/\ ImageHandled(k, n)
               /\ ~\E m \in 1..Len(log) :
                     /\ log[m].i = k /\ log[m].op = "tesseract"
                     /\ log[m].arg[1] = n)
              => \E m \in 1..Len(log) :
                     /\ log[m].i = k
                     /\ log[m].op \in {"warn_not_found", "warn_could_not_load"}
                     /\ log[m].arg = recipes[k].best_images[n]
        /\ Happened(k, "vision_raised") => Happened(k, "error_gpt4o_failed")

\* C18 as stated: the recognizer is given the preprocessed file of an
\* image only when that image was decoded and its file written in this
\* run, by this very preprocessing call.
C18_RecognizerOnlyAfterFreshPreprocess ==
    \A m \in 1..Len(log) :
        log[m].op \in {"tesseract", "tesseract_raised"} =>
            imageState[recipes[log[m].i].best_images[log[m].arg[1]]] = "ok"

\* C19 as stated: two preprocessing calls that write to the same path are
\* calls for the same recipe id and the same image name.
C19_DistinctPairsDistinctPaths ==
    \A m, n \in 1..Len(log) :
        (/\ log[m].op = "preprocess" /\ log[n].op = "preprocess"
         /\ log[m].arg[2] = log[n].arg[2])
        => /\ recipes[log[m].i].id = recipes[log[n].i].id
           /\ log[m].arg[1] = log[n].arg[1]

\* C20: with distinct recipe ids, in every state the run can be stopped
\* in, each appended record has its printed-text file, holding the
\* record's printed-text field, and the combined file is written only
\* when every recipe has its record.
C20_PerRecipeFilesSurvive ==
    UniqueIds =>
        /\ \A k \in 1..Len(all_results) :
              /\ TxtName(recipes[k].id) \in DOMAIN tessFiles
              /\ tessFiles[TxtName(recipes[k].id)] = all_results[k].tesseract_raw
        /\ combinedFile[1] = "written" => Len(all_results) = Len(recipes)

\* C20 witness: two records with different printed-text fields are
\* appended and the combined file is not yet written.
C20_Witness ==
    /\ UniqueIds
    /\ Len(all_results) = 2
    /\ all_results[1].tesseract_raw # all_results[2].tesseract_raw
    /\ combinedFile[1] = "absent"

\* C21 as stated: whenever the vision call for recipe k returned a
\* transcript, the vision field of the record of recipe k is exactly that
\* transcript, whatever happened afterwards while saving the per-recipe
\* vision file.
C21_ReturnedTranscriptIsKept ==
    \A k \in 1..Len(all_results) :
        \A n \in Pos(k, "vision_returned") :
            all_results[k].gpt4o_raw = log[n].arg

(* ====================================================================== *)
(*                     build_html.py: str methods                         *)
(* ====================================================================== *)
\* run_pipeline before it starts: the state of the other functions' runs
PipelineIdle ==
    /\ recipes = <<>>
    /\ imageState = [n \in ImageNames |-> "missing"]
    /\ preprocFiles = <<>>
    /\ tessFiles = <<>>
    /\ gpt4oFiles = <<>>
    /\ combinedFile = <<"absent">>
    /\ all_results = <<>>
    /\ i = 1
    /\ j = 1
    /\ result = NoResult
    /\ tesseract_texts = <<>>
    /\ log = <<>>

\* s[n:]
Drop(s, n) == SubSeq(s, n + 1, Len(s))

\* s.startswith(p), s.endswith(p)
StartsWith(s, p) == Len(p) <= Len(s) /\ SubSeq(s, 1, Len(p)) = p

EndsWith(s, p) == Len(p) <= Len(s) /\ SubSeq(s, Len(s) - Len(p) + 1, Len(s)) = p

\* s.find(sub) + 1: where the leftmost occurrence of sub starts, 0 if none
Find(s, sub) ==
    LET at == {k \in 1..(Len(s) - Len(sub) + 1) :
                  SubSeq(s, k, k + Len(sub) - 1) = sub}
    IN  IF at = {} THEN 0 ELSE CHOOSE k \in at : \A n \in at : k <= n

\* s.replace(old, new, count): the leftmost non-overlapping occurrences of
\* old, at most count of them (all of them when count is negative)
RECURSIVE Replace(_, _, _, _)
Replace(s, old, new, count) ==
    IF count = 0 \/ Find(s, old) = 0 THEN s
    ELSE SubSeq(s, 1, Find(s, old) - 1) \o new
         \o Replace(Drop(s, Find(s, old) + Len(old) - 1), old, new, count - 1)

\* s.count(sub): the non-overlapping occurrences of sub
RECURSIVE Count(_, _)
Count(s, sub) ==
    IF Find(s, sub) = 0 THEN 0
    ELSE 1 + Count(Drop(s, Find(s, sub) + Len(sub) - 1), sub)

\* sub in s
Contains(s, sub) == Count(s, sub) > 0

\* s.lstrip(chars), s.rstrip(chars), s.strip(chars)
RECURSIVE LStrip(_, _)
LStrip(s, chars) ==
    IF s # "" /\ SubSeq(s, 1, 1) \in chars THEN LStrip(Drop(s, 1), chars) ELSE s

RECURSIVE RStrip(_, _)
RStrip(s, chars) ==
    IF s # "" /\ SubSeq(s, Len(s), Len(s)) \in chars
    THEN RStrip(SubSeq(s, 1, Len(s) - 1), chars)
    ELSE s

Strip(s, chars) == LStrip(RStrip(s, chars), chars)

\* the characters s.strip() removes, among those of the texts
Whitespace == {" ", "\n"}

\* s.split(sep)
RECURSIVE Split(_, _)
Split(s, sep) ==
    IF Find(s, sep) = 0 THEN <<s>>
    ELSE <<SubSeq(s, 1, Find(s, sep) - 1)>>
         \o Split(Drop(s, Find(s, sep) + Len(sep) - 1), sep)

\* s.lower(), for the capital letters of the texts
LowerOf(c) ==
    CASE c = "T" -> "t"
      [] c = "H" -> "h"
      [] OTHER -> c

RECURSIVE Lower(_)
Lower(s) ==
    IF Len(s) <= 1 THEN LowerOf(s)
    ELSE Lower(SubSeq(s, 1, Len(s) \div 2)) \o Lower(Drop(s, Len(s) \div 2))

\* dict.get(key, default)
Get(d, key, default) == IF key \in DOMAIN d THEN d[key] ELSE default

\* the concatenation of a list of lists
RECURSIVE Flatten(_)
Flatten(ss) == IF ss = <<>> THEN <<>> ELSE Head(ss) \o Flatten(Tail(ss))

\* texts made of at most n of the given pieces
RECURSIVE TextsOf(_, _)
TextsOf(pieces, n) ==
    IF n = 0 THEN {""}
    ELSE LET shorter == TextsOf(pieces, n - 1)
         IN  shorter \cup {p \o t : p \in pieces, t \in shorter}

(* ====================================================================== *)
(*                     build_html.py: escape_html                         *)
(* ====================================================================== *)
\* length of the texts given to escape_html
MaxLen == 3

\* the five characters escape_html replaces, and two it leaves alone
EscapeChars == {"&", "<", ">", "\"", "\n", "a", ";"}

\* faulty variant: the ampersand is replaced last
escape_htmlAmpLast(s) ==
    Replace(Replace(Replace(Replace(Replace(s,
        "<", "&lt;", -1),
        ">", "&gt;", -1),
        "\"", "&quot;", -1),
        "\n", "<br>", -1),
        "&", "&amp;", -1)

\* the chain of str.replace calls, applied in the order of the source
escape_html(s) ==
    Replace(Replace(Replace(Replace(Replace(s,
        "&", "&amp;", -1),
        "<", "&lt;", -1),
        ">", "&gt;", -1),
        "\"", "&quot;", -1),
        "\n", "<br>", -1)

InitEscape ==
    /\ pc = "escape_html"
    /\ raw_text \in TextsOf(EscapeChars, MaxLen)
    /\ escaped = ""
    /\ PipelineIdle /\ CardIdle /\ HtmlIdle /\ ImageIdle

\* escaped = escape_html(raw_text)
EscapeHtml ==
    /\ pc = "escape_html"
    /\ escaped' = escape_html(raw_text)
    /\ pc' = "escaped"
    /\ UNCHANGED <<raw_text, pipelineVars, cardVars, htmlVars, imageVars>>

NextEscape == EscapeHtml

SpecEscape == InitEscape /\ [][NextEscape]_vars

\* what one character becomes when each character is mapped once
EntityOf(c) ==
    CASE c = "&" -> "&amp;"
      [] c = "<" -> "&lt;"
      [] c = ">" -> "&gt;"
      [] c = "\"" -> "&quot;"
      [] c = "\n" -> "<br>"
      [] OTHER -> c

RECURSIVE SinglePass(_)
SinglePass(s) ==
    IF s = "" THEN "" ELSE EntityOf(SubSeq(s, 1, 1)) \o SinglePass(Drop(s, 1))

\* C15: escape_html returns, for every text, what the single-pass character
\* map returns (& to &amp;, < to &lt;, > to &gt;, " to &quot;, newline to
\* <br>, any other character itself): no later replacement touches the
\* text an earlier one produced.
C15_EscapeIsSinglePass ==
    pc = "escaped" => escaped = SinglePass(raw_text)

\* a text holding an ampersand and a newline, whose entity and tag hold
\* characters that other replacements look for, has been escaped
C15_Witness ==
    /\ pc = "escaped"
    /\ raw_text = "&\n<"
    /\ escaped = "&amp;<br>&lt;"

(* ====================================================================== *)
(*            ocr_pipeline.py: preprocess_for_tesseract's resize          *)
(* ====================================================================== *)
\* the longest side an input image has
MaxSide == 1502

\* side lengths in pixels: small ones, and the ones around 1500
Sides == {1, 2, 3, 750, 1000} \cup (1497..MaxSide)

Abs(x) == IF x < 0 THEN -x ELSE x

Max(a, b) == IF a >= b THEN a ELSE b

Min(a, b) == IF a <= b THEN a ELSE b

\* cv2.resize with fx = fy = scale: a side of the output is the rounded
\* side * scale.  scale is the float 1500 / longest, so a product that
\* falls exactly between two pixels can round to either of them.
Rounded(side, longest) ==
    {q \in {(side * 1500) \div longest, (side * 1500) \div longest + 1} :
        2 * Abs(q * longest - side * 1500) <= longest}

InitImage ==
    /\ pc = "preprocess"
    /\ img \in {<<>>} \cup {<<h, w>> : h \in Sides, w \in Sides}
    /\ denoised = <<>>
    /\ PipelineIdle /\ EscapeIdle /\ CardIdle /\ HtmlIdle

\* cv2.imread returns None: warning, return None
ImreadNone ==
    /\ pc = "preprocess"
    /\ img = <<>>
    /\ pc' = "returned_none"
    /\ UNCHANGED <<img, denoised, pipelineVars, escapeVars, cardVars, htmlVars>>

\* faulty variant: the factor is taken from the shorter side
ResizeShortSide ==
    /\ pc = "preprocess"
    /\ img # <<>>
    /\ Max(img[1], img[2]) < 1500
    /\ \E nh \in Rounded(img[1], Min(img[1], img[2])),
          nw \in Rounded(img[2], Min(img[1], img[2])) :
          denoised' = <<nh, nw>>
    /\ pc' = "preprocessed"
    /\ UNCHANGED <<img, pipelineVars, escapeVars, cardVars, htmlVars>>

\* max(h, w) < 1500: the grayscale image is resized by 1500 / max(h, w);
\* the later filters keep its shape
Resize ==
    /\ pc = "preprocess"
    /\ img # <<>>
    /\ Max(img[1], img[2]) < 1500
    /\ \E nh \in Rounded(img[1], Max(img[1], img[2])),
          nw \in Rounded(img[2], Max(img[1], img[2])) :
          denoised' = <<nh, nw>>
    /\ pc' = "preprocessed"
    /\ UNCHANGED <<img, pipelineVars, escapeVars, cardVars, htmlVars>>

\* max(h, w) >= 1500: no resize; the filters keep the shape
KeepSize ==
    /\ pc = "preprocess"
    /\ img # <<>>
    /\ Max(img[1], img[2]) >= 1500
    /\ denoised' = img
    /\ pc' = "preprocessed"
    /\ UNCHANGED <<img, pipelineVars, escapeVars, cardVars, htmlVars>>

NextImage ==
    \/ ImreadNone
    \/ Resize
    \/ KeepSize

SpecImage == InitImage /\ [][NextImage]_vars

\* C17: for an image of height h and width w that decodes: when
\* max(w, h) < 1500 the output's longer side is exactly 1500 and each side
\* is the input's side times 1500 / max(w, h), to the nearest pixel; when
\* max(w, h) >= 1500 the output has the input's size.
C17_ResizeToLongerSide1500 ==
    pc = "preprocessed" =>
        LET longest == Max(img[1], img[2])
        IN  IF longest < 1500
            THEN /\ Max(denoised[1], denoised[2]) = 1500
                 /\ \A d \in 1..2 :
                       2 * Abs(denoised[d] * longest - img[d] * 1500) <= longest
            ELSE denoised = img

\* a 750 x 1000 image has been enlarged to 1125 x 1500
C17_Witness ==
    /\ pc = "preprocessed"
    /\ img = <<750, 1000>>
    /\ denoised = <<1125, 1500>>

(* ====================================================================== *)
(*                  build_html.py: build_recipe_card                      *)
(* ====================================================================== *)
\* number of pieces a recipe's text is made of
MaxPieces == 3

\* what a recipe's texts are made of: the characters escape_html replaces,
\* the markers build_recipe_card looks for, and a plain letter
CardPieces == {"&", "<", ">", "\"", "\n", "\n\n", "---", "- ", "Then add",
               "[Handwritten:", "[Handwritten note:", "]", "a"}

\* recipes whose title, last ingredient line, method and notes are the text t
CardRecipe(t) ==
    [id |-> "ball_curry", title |-> t, type |-> "typed",
     ingredients |-> <<"1 onion", t>>, method |-> t, notes |-> t,
     source_images |-> <<"p1.jpg">>]

SPAN == "<span class=\"handwritten-note\">"

\* an f-string '<open>{body}<close>' added to the document
Fragment(open, body, close) == [open |-> open, text |-> body, close |-> close]

\* the handwritten-note markup of an ingredient line or a method paragraph
\* that has been escaped
CloseSpans(html) ==
    IF Contains(html, SPAN)
    THEN Replace(html, "]", "]</span>", Count(html, "<span"))
    ELSE html

\* one turn of the loop over the ingredients: what it adds to ingredients_html
IngredientHtml(ing) ==
    IF StartsWith(ing, "---") /\ EndsWith(ing, "---")
    THEN <<Fragment("<li class=\"ingredient-section\">",
                    Strip(ing, {"-", " "}), "</li>")>>
    ELSE IF ing = "" THEN <<>>
    ELSE IF StartsWith(ing, "Then add:") \/ StartsWith(ing, "Then add")
    THEN <<Fragment("<li class=\"ingredient-instruction\">",
                    escape_html(ing), "</li>")>>
    ELSE <<Fragment("<li>",
                    CloseSpans(Replace(Replace(escape_html(ing),
                        "[Handwritten:", SPAN \o "[Handwritten:", -1),
                        "[Handwritten note:", SPAN \o "[Note:", -1)),
                    "</li>")>>

\* one turn of the loop over the method's paragraphs, para being stripped
MethodParaHtml(para) ==
    IF StartsWith(para, "---") /\ EndsWith(para, "---")
    THEN <<Fragment("<h4 class=\"method-subsection\">",
                    escape_html(Strip(para, {"-", " "})), "</h4>")>>
    ELSE IF StartsWith(para, "- ")
    THEN LET items == Split(para, "\n")
         IN  <<Fragment("<ul class='method-list'>", "", "")>>
             \o [k \in 1..Len(items) |->
                    Fragment("<li>", escape_html(LStrip(items[k], {"-", " "})),
                             "</li>")]
             \o <<Fragment("", "", "</ul>")>>
    ELSE IF para # ""
    THEN <<Fragment("<p>",
                    CloseSpans(Replace(escape_html(para),
                        "[Handwritten:", SPAN \o "[Handwritten:", -1)),
                    "</p>")>>
    ELSE <<>>

MethodHtml(method) ==
    IF method = "" THEN <<>>
    ELSE LET method_paras == Split(method, "\n\n")
         IN  Flatten([k \in 1..Len(method_paras) |->
                         MethodParaHtml(Strip(method_paras[k], Whitespace))])

NotesHtml(notes) ==
    IF notes = "" THEN <<>>
    ELSE <<Fragment("<div class=\"recipe-notes\"><strong>Notes:</strong> ",
                    escape_html(notes), "</div>")>>

\* the gallery: one photo for every source image that has been encoded
ImagesHtml(source_images, title, data) ==
    Flatten([k \in 1..Len(source_images) |->
                IF source_images[k] \in data
                THEN <<Fragment("<img alt=\"Original: ", escape_html(title),
                                "\" loading=\"lazy\">")>>
                ELSE <<>>])

\* the values that fill the card's template
build_recipe_card(r, data) ==
    LET title == r.title
        ingredients == Get(r, "ingredients", <<>>)
    IN  [id |-> r.id,
         data_type |-> r.type,
         data_title |-> escape_html(Lower(title)),
         h2 |-> escape_html(title),
         badge |-> r.type,
         ingredients_html |->
             Flatten([k \in 1..Len(ingredients) |-> IngredientHtml(ingredients[k])]),
         method_html |-> MethodHtml(Get(r, "method", "")),
         notes_html |-> NotesHtml(Get(r, "notes", "")),
         images_html |-> ImagesHtml(Get(r, "source_images", <<>>), title, data)]

InitCard ==
    /\ pc = "build_recipe_card"
    /\ card_recipe \in {CardRecipe(t) : t \in TextsOf(CardPieces, MaxPieces)}
    /\ image_data \in {{}, {"p1.jpg"}}
    /\ card_html = <<>>
    /\ PipelineIdle /\ EscapeIdle /\ HtmlIdle /\ ImageIdle

\* card_html = build_recipe_card(recipe, image_data)
BuildRecipeCard ==
    /\ pc = "build_recipe_card"
    /\ card_html' = build_recipe_card(card_recipe, image_data)
    /\ pc' = "card_built"
    /\ UNCHANGED <<card_recipe, image_data, pipelineVars, escapeVars, htmlVars,
                   imageVars>>

NextCard == BuildRecipeCard

SpecCard == InitCard /\ [][NextCard]_vars

\* what escape_html and the handwritten-note markup write with the
\* characters & < > "
MarkupTokens == {"&amp;", "&lt;", "&gt;", "&quot;", "<br>", SPAN, "</span>"}

\* every & < > " of s belongs to an entity or a tag of MarkupTokens
RECURSIVE NoRawSpecial(_)
NoRawSpecial(s) ==
    LET at == {k \in 1..Len(s) : SubSeq(s, k, k) \in {"&", "<", ">", "\""}}
        first == CHOOSE k \in at : \A n \in at : k <= n
    IN  \/ at = {}
        \/ \E t \in MarkupTokens :
              /\ StartsWith(Drop(s, first - 1), t)
              /\ NoRawSpecial(Drop(s, first - 1 + Len(t)))

\* the pieces of recipe text in a card
CardTexts(card) ==
    {card.data_title, card.h2}
    \cup {card.ingredients_html[k].text : k \in 1..Len(card.ingredients_html)}
    \cup {card.method_html[k].text : k \in 1..Len(card.method_html)}
    \cup {card.notes_html[k].text : k \in 1..Len(card.notes_html)}
    \cup {card.images_html[k].text : k \in 1..Len(card.images_html)}

\* C16: every piece of a recipe's free text in the card (title, ingredient
\* lines with the subsection headers among them, method paragraphs and list
\* items, notes) has been escaped: it holds no raw & < > or ".
C16_AllFreeTextEscaped ==
    pc = "card_built" => \A t \in CardTexts(card_html) : NoRawSpecial(t)

\* the span tags of s, read from the left with depth spans open, pair up:
\* no </span> comes while no span is open, and none stays open at the end
RECURSIVE Balanced(_, _)
Balanced(s, depth) ==
    LET opening == Find(s, SPAN)
        closing == Find(s, "</span>")
    IN  IF opening = 0 /\ closing = 0 THEN depth = 0
        ELSE IF opening # 0 /\ (closing = 0 \/ opening < closing)
        THEN Balanced(Drop(s, opening + Len(SPAN) - 1), depth + 1)
        ELSE depth > 0 /\ Balanced(Drop(s, closing + Len("</span>") - 1), depth - 1)

\* C22 as stated: in every ingredient line and every method paragraph of
\* the card the handwritten-note markup is balanced: each opened span is
\* closed by one </span> after it, and no </span> is written before or
\* without an opening span.
C22_HandwrittenSpansBalanced ==
    pc = "card_built" =>
        /\ \A k \in 1..Len(card_html.ingredients_html) :
              Balanced(card_html.ingredients_html[k].text, 0)
        /\ \A k \in 1..Len(card_html.method_html) :
              Balanced(card_html.method_html[k].text, 0)

(* ====================================================================== *)
(*                      build_html.py: build_html                         *)
(* ====================================================================== *)
\* number of recipes in recipes.json
MaxCards == 3

RECIPE_ORDER ==
    <<"green_masala_bryani", "chicken_curry_handwritten", "chicken_curry_typed",
      "ball_curry", "fish_curry", "coconut_fish_prawn_curry", "prawn_balchow",
      "pepper_water_typed", "pepper_water_handwritten", "breast_pepper_water",
      "aubergine_brinjal_fry", "brinjal_ladies_fingers", "mixed_frozen_veg",
      "dosais", "johns_green_masala_curry", "johns_3_bean_curry">>

\* ids of the loaded recipes: two of RECIPE_ORDER, two that are not in it
HtmlIds == {"ball_curry", "green_masala_bryani", "lemon_rice", "mango_pickle"}

HtmlTitles == {"Curry", "Curry & Rice"}

\* recipes of recipes.json; ingredients, method, notes and source_images
\* are optional keys and are left out
HtmlRecipes == [id : HtmlIds, title : HtmlTitles, type : {"typed"}]

\* ordered_ids = set(RECIPE_ORDER)
ordered_ids == {RECIPE_ORDER[k] : k \in 1..Len(RECIPE_ORDER)}

\* recipe_map = {r["id"]: r for r in recipes}: of two recipes with one id
\* the later one stays
recipe_map(rs) ==
    [id \in {rs[k].id : k \in 1..Len(rs)} |->
        rs[CHOOSE k \in 1..Len(rs) :
               rs[k].id = id /\ \A n \in (k + 1)..Len(rs) : rs[n].id # id]]

\* the recipes that are not in RECIPE_ORDER, as loaded
NotListed(rs) == SelectSeq(rs, LAMBDA r : r.id \notin ordered_ids)

\* faulty variant: the listed recipes stay in the order they were loaded in
OrderedRecipesAsLoaded(rs) ==
    SelectSeq(rs, LAMBDA r : r.id \in ordered_ids) \o NotListed(rs)

\* ordered_recipes after the two loops
OrderedRecipes(rs) ==
    Flatten([k \in 1..Len(RECIPE_ORDER) |->
                IF RECIPE_ORDER[k] \in DOMAIN recipe_map(rs)
                THEN <<recipe_map(rs)[RECIPE_ORDER[k]]>>
                ELSE <<>>])
    \o NotListed(rs)

\* the diagnostics the two loops print
Diagnostics(rs) ==
    Flatten([k \in 1..Len(RECIPE_ORDER) |->
                IF RECIPE_ORDER[k] \in DOMAIN recipe_map(rs)
                THEN <<>>
                ELSE <<[level |-> "WARN", id |-> RECIPE_ORDER[k]]>>])
    \o [k \in 1..Len(NotListed(rs)) |->
           [level |-> "INFO", id |-> NotListed(rs)[k].id]]

InitHtml ==
    /\ pc = "build_html"
    /\ html_recipes \in SeqsUpTo(HtmlRecipes, MaxCards)
    /\ ordered_recipes = <<>>
    /\ cards_html = <<>>
    /\ printed = <<>>
    /\ PipelineIdle /\ EscapeIdle /\ CardIdle /\ ImageIdle

\* recipes.json is loaded and reordered according to RECIPE_ORDER
ReorderRecipes ==
    /\ pc = "build_html"
    /\ ordered_recipes' = OrderedRecipes(html_recipes)
    /\ printed' = Diagnostics(html_recipes)
    /\ pc' = "render"
    /\ UNCHANGED <<html_recipes, cards_html, pipelineVars, escapeVars,
                   cardVars, imageVars>>

\* cards_html: one card for each of the reordered recipes; no recipe names
\* a source image, so image_data is empty
RenderCards ==
    /\ pc = "render"
    /\ cards_html' = [k \in 1..Len(ordered_recipes) |->
                         build_recipe_card(ordered_recipes[k], {})]
    /\ pc' = "rendered"
    /\ UNCHANGED <<html_recipes, ordered_recipes, printed, pipelineVars,
                   escapeVars, cardVars, imageVars>>

NextHtml ==
    \/ ReorderRecipes
    \/ RenderCards

SpecHtml == InitHtml /\ [][NextHtml]_vars

UniqueHtmlIds ==
    \A a, b \in 1..Len(html_recipes) :
        html_recipes[a].id = html_recipes[b].id => a = b

\* where the card of a recipe belongs: at the place of its id in
\* RECIPE_ORDER, or after all of those at its place in the input
Rank(id) ==
    IF id \in ordered_ids
    THEN CHOOSE k \in 1..Len(RECIPE_ORDER) : RECIPE_ORDER[k] = id
    ELSE Len(RECIPE_ORDER)
         + (CHOOSE k \in 1..Len(html_recipes) : html_recipes[k].id = id)

\* C14: with unique recipe ids, build_html renders each loaded recipe
\* exactly once; the recipes whose id is in RECIPE_ORDER come first, in
\* the order of RECIPE_ORDER, then the others in the order they were loaded
\* in, and one diagnostic is printed for each of these others.
C14_EachRecipeOnceInDisplayOrder ==
    (pc = "rendered" /\ UniqueHtmlIds) =>
        /\ Len(cards_html) = Len(html_recipes)
        /\ \A k \in 1..Len(html_recipes) :
              Cardinality({m \in 1..Len(cards_html) :
                  /\ cards_html[m].id = html_recipes[k].id
                  /\ cards_html[m].h2 = escape_html(html_recipes[k].title)}) = 1
        /\ \A m, n \in 1..Len(cards_html) :
              m < n => Rank(cards_html[m].id) < Rank(cards_html[n].id)
        /\ \A k \in 1..Len(html_recipes) :
              Cardinality({n \in 1..Len(printed) :
                  /\ printed[n].level = "INFO"
                  /\ printed[n].id = html_recipes[k].id}) =
              (IF html_recipes[k].id \in ordered_ids THEN 0 ELSE 1)

\* three recipes loaded in the reverse of their display order have been
\* rendered
C14_Witness ==
    /\ pc = "rendered"
    /\ Len(html_recipes) = 3
    /\ html_recipes[1].id = "lemon_rice"
    /\ html_recipes[2].id = "ball_curry"
    /\ html_recipes[3].id = "green_masala_bryani"
    /\ cards_html[1].id = "green_masala_bryani"
    /\ cards_html[2].id = "ball_curry"
    /\ cards_html[3].id = "lemon_rice"
====
